---- MODULE Spec2Model ----
(***************************************************************************)
(* Model of the roll-resolution engine of the Lancer Downtime module       *)
(* (src/scripts/roll-handler.mjs): the two check executors                 *)
(* executePilotCheck and executeDicePool, the result classifiers and the   *)
(* random draw source they consume.                                        *)
(*                                                                         *)
(* One executor invocation is one action, taken when no invocation is      *)
(* live.  Its inputs are the check specification (accuracy, difficulty or  *)
(* poolSize, and the conditionals) and the values the draw source returns  *)
(* for the draws the code requests.                                        *)
(* The draws of the invocation are logged in `draws`, the arguments in     *)
(* `call`, and the returned object in `rollResult`.                        *)
(***************************************************************************)
EXTENDS Integers, Sequences, FiniteSets, TLC

VARIABLES
  \* one executor invocation: its arguments, its draws, the object returned
  call, draws, rollResult, thrown,
  \* the conditional objects and arrays of a caller of the module API
  heap, ledger, resultConditionals, mutations,
  \* one action execution of the tracker application
  pc, action, dialog, notes, chat, downtimeData, activeMarker, clock,
  \* the world settings: the referee's markers and the id of the active one
  markers, activeMarkerId,
  \* the other flows of the module: the character acted on, the roll type
  \* determined for an action, the run of the take-a-break effects, the
  \* recordings in flight
  character, rollType, effects, recorders

engineVars == <<call, draws, rollResult, thrown>>

apiVars == <<heap, ledger, resultConditionals, mutations>>

appVars ==
  <<pc, action, dialog, notes, chat, downtimeData, activeMarker, clock>>

storeVars == <<markers, activeMarkerId>>

flowVars == <<character, rollType, effects, recorders>>

vars == <<engineVars, apiVars, appVars, storeVars, flowVars>>

----------------------------------------------------------------------------
(* Bounds of the model *)

\* accuracy and difficulty range over 0..MaxAcc
MaxAcc == 2
\* poolSize ranges over 0..MaxPool
MaxPool == 2
\* at most MaxConds conditionals are proposed for one check
MaxConds == 2
\* a conditional's value ranges over 1..MaxCondVal
MaxCondVal == 2
\* the draw source is asked for at most MaxBatch d6 in one invocation
MaxBatch == 3
\* ... and for at most MaxApiBatch d6 in the specifications of the API callers
MaxApiBatch == 2
\* an API caller changes its conditionals at most MaxMutations times after a roll
MaxMutations == 1

\* Faces the draw source returns in the model.  The d20 faces are those from
\* which, with a modifier of 0 or +-(a d6 face), every total on either side
\* of each threshold (1, 10, 20) and the totals 0 and -1 are reached; the d6
\* faces are the lowest face, both sides of the success face, and the highest.
D20Faces == {1, 5, 9, 10, 14, 20}
D6Faces == {1, 4, 5, 6}

----------------------------------------------------------------------------
(* Program constants *)

ROLL_TYPES == [PILOT_CHECK |-> "pilot-check", DICE_POOL |-> "dice-pool"]

CONDITIONAL_STATUS ==
  [PENDING |-> "pending", APPROVED |-> "approved", REJECTED |-> "rejected"]

POOL_RESULTS ==
  [triumph |-> [min |-> 3, label |-> "Triumph"],
   success |-> [min |-> 2, label |-> "Success"],
   conflict |-> [min |-> 1, label |-> "Conflict"],
   disaster |-> [min |-> 0, label |-> "Disaster"]]

\* PILOT_RESULTS.DISASTER.min is -Infinity in the source; only the labels
\* are read by the executors.
PILOT_RESULTS ==
  [triumph |-> [label |-> "Triumph"],
   success |-> [label |-> "Success"],
   conflict |-> [label |-> "Conflict"],
   disaster |-> [label |-> "Disaster"]]

\* JavaScript null
null == [isNull |-> TRUE]

----------------------------------------------------------------------------
(* Helpers of the JavaScript runtime *)

Abs(n) == IF n < 0 THEN -n ELSE n

MathMax2(a, b) == IF a >= b THEN a ELSE b

\* Math.max(...xs) for a non-empty array
RECURSIVE MathMax(_)
MathMax(xs) ==
  IF Len(xs) = 1 THEN xs[1] ELSE MathMax2(xs[1], MathMax(Tail(xs)))

\* xs.slice(0, k); a negative k counts from the end
slice0(xs, k) ==
  SubSeq(xs, 1, IF k < 0 THEN MathMax2(Len(xs) + k, 0)
                ELSE IF k < Len(xs) THEN k ELSE Len(xs))

\* xs.slice(k); a negative k counts from the end
sliceFrom(xs, k) ==
  SubSeq(xs, (IF k < 0 THEN MathMax2(Len(xs) + k, 0) ELSE k) + 1, Len(xs))

\* Mutant of sumValues: only approved conditionals count
RECURSIVE sumValues_approvedOnly(_)
sumValues_approvedOnly(conditionals) ==
  IF conditionals = <<>> THEN 0
  ELSE (IF conditionals[1].status = "approved"
          THEN conditionals[1].value ELSE 0)
       + sumValues_approvedOnly(Tail(conditionals))

\* conditionals.reduce((sum, c) => sum + c.value, 0)
RECURSIVE sumValues(_)
sumValues(conditionals) ==
  IF conditionals = <<>> THEN 0
  ELSE conditionals[1].value + sumValues(Tail(conditionals))

\* conditionals.map(c => ({ ...c }))
copyConditionals(conditionals) ==
  [i \in 1..Len(conditionals) |->
     [value |-> conditionals[i].value,
      reason |-> conditionals[i].reason,
      status |-> conditionals[i].status]]

\* conditionals.length > 0, the hasConditionals field
hasConditionals(conditionals) == Len(conditionals) > 0

\* Mutant of potentialOrNull: the potential section is always built
potentialOrNull_always(conditionals, potential) == potential

\* conditionals.length > 0 ? { ...potential section } : null
potentialOrNull(conditionals, potential) ==
  IF Len(conditionals) > 0 THEN potential ELSE null

----------------------------------------------------------------------------
(* Result classifiers *)

\* Mutant of getPilotResultCategory: strict comparisons
getPilotResultCategory_strict(total) ==
  IF total > 20 THEN "triumph"
  ELSE IF total > 10 THEN "success"
  ELSE IF total > 1 THEN "conflict"
  ELSE "disaster"

\* Mutant of getPilotResultCategory: conflict from a total of 0
getPilotResultCategory_zeroConflict(total) ==
  IF total >= 20 THEN "triumph"
  ELSE IF total >= 10 THEN "success"
  ELSE IF total >= 0 THEN "conflict"
  ELSE "disaster"

\* Mutant of getPilotResultCategory: only a total of exactly 20 is a triumph
getPilotResultCategory_onlyTwenty(total) ==
  IF total = 20 THEN "triumph"
  ELSE IF total >= 10 THEN "success"
  ELSE IF total >= 1 THEN "conflict"
  ELSE "disaster"

getPilotResultCategory(total) ==
  IF total >= 20 THEN "triumph"
  ELSE IF total >= 10 THEN "success"
  ELSE IF total >= 1 THEN "conflict"
  ELSE "disaster"

getPoolResultCategory(successes) ==
  IF successes >= 3 THEN "triumph"
  ELSE IF successes >= 2 THEN "success"
  ELSE IF successes >= 1 THEN "conflict"
  ELSE "disaster"

\* Mutant of isSuccess: only a 6 is a success
isSuccess_onlySix(r) == r > 5

\* r >= 5, the success test of executeDicePool's two filters
isSuccess(r) == r >= 5

\* dice.filter(r => r >= 5).length
RECURSIVE countSuccesses(_)
countSuccesses(dice) ==
  IF dice = <<>> THEN 0
  ELSE (IF isSuccess(dice[1]) THEN 1 ELSE 0) + countSuccesses(Tail(dice))

----------------------------------------------------------------------------
(* executePilotCheck *)

\* `1d20 ${net > 0 ? '+' : '-'} ${Math.abs(net)}d6kh1`, or "1d20" when net = 0
pilotFormula(net) ==
  IF net # 0
    THEN "1d20 " \o (IF net > 0 THEN "+" ELSE "-") \o " "
         \o ToString(Abs(net)) \o "d6kh1"
    ELSE "1d20"

\* Mutant of maxModCount: the batch is sized for the potential net only
maxModCount_potentialOnly(netAccuracy, netWithConditional) ==
  Abs(netWithConditional)

\* Mutant of maxModCount: at least one die is always drawn
maxModCount_atLeastOne(netAccuracy, netWithConditional) ==
  MathMax2(1, MathMax2(Abs(netAccuracy), Abs(netWithConditional)))

\* Number of d6 of the single modifier batch
maxModCount(netAccuracy, netWithConditional) ==
  MathMax2(Abs(netAccuracy), Abs(netWithConditional))

\* The draws executePilotCheck requests from the draw source, in order: the
\* d20, then one batch of maxModCount d6 when maxModCount > 0.
pilotDrawRequests(accuracy, difficulty, conditionals) ==
  LET netAccuracy == accuracy - difficulty
      netWithConditional == netAccuracy + sumValues(conditionals)
      n == maxModCount(netAccuracy, netWithConditional)
  IN  <<[sides |-> 20, count |-> 1]>>
      \o (IF n > 0 THEN <<[sides |-> 6, count |-> n]>> ELSE <<>>)

\* Mutant of confirmedModifierDice: the last |net| dice of the batch
confirmedModifierDice_fromEnd(netAccuracy, allModifierDice) ==
  IF netAccuracy # 0
    THEN sliceFrom(allModifierDice,
                   MathMax2(0, Len(allModifierDice) - Abs(netAccuracy)))
    ELSE <<>>

\* Mutant of confirmedModifierDice: the whole batch
confirmedModifierDice_all(netAccuracy, allModifierDice) ==
  IF netAccuracy # 0 THEN allModifierDice ELSE <<>>

\* The dice the confirmed modifier is taken from
confirmedModifierDice(netAccuracy, allModifierDice) ==
  IF netAccuracy # 0 THEN slice0(allModifierDice, Abs(netAccuracy)) ELSE <<>>

\* Mutant of modifierValue: the highest die is always added
modifierValue_unsigned(net, dice) ==
  IF net # 0
    THEN IF Len(dice) > 0 THEN MathMax(dice) ELSE 0
    ELSE 0

\* Mutant of modifierValue: the sign is inverted
modifierValue_inverted(net, dice) ==
  IF net # 0
    THEN LET highestDie == IF Len(dice) > 0 THEN MathMax(dice) ELSE 0
         IN  IF net > 0 THEN -highestDie ELSE highestDie
    ELSE 0

\* The signed modifier of `net` dice: + highest when net > 0, - highest when
\* net < 0, 0 when net = 0 (highest is 0 for an empty list)
modifierValue(net, dice) ==
  IF net # 0
    THEN LET highestDie == IF Len(dice) > 0 THEN MathMax(dice) ELSE 0
         IN  IF net > 0 THEN highestDie ELSE -highestDie
    ELSE 0

\* The potential section of a pilot check
pilotPotential(netWithConditional, d20Result, allModifierDice) ==
  LET potentialModifierDice == allModifierDice
      potentialModifierValue ==
        modifierValue(netWithConditional, potentialModifierDice)
      potentialTotal == d20Result + potentialModifierValue
      potentialResult == getPilotResultCategory(potentialTotal)
  IN  [formula |-> pilotFormula(netWithConditional),
       netAccuracy |-> netWithConditional,
       modifierDice |-> potentialModifierDice,
       modifierValue |-> potentialModifierValue,
       total |-> potentialTotal,
       resultCategory |-> potentialResult,
       resultLabel |-> PILOT_RESULTS[potentialResult].label]

\* The object executePilotCheck returns when the draw source returned
\* d20Result for the d20 and allModifierDice for the d6 batch (<<>> when no
\* batch was requested).
executePilotCheck(accuracy, difficulty, reason, conditionals, d20Result, allModifierDice) ==
  LET netAccuracy == accuracy - difficulty
      conditionalAccuracy == sumValues(conditionals)
      netWithConditional == netAccuracy + conditionalAccuracy
      confirmedDice == confirmedModifierDice(netAccuracy, allModifierDice)
      confirmedModifierValue == modifierValue(netAccuracy, confirmedDice)
      confirmedTotal == d20Result + confirmedModifierValue
      confirmedResult == getPilotResultCategory(confirmedTotal)
  IN  [type |-> ROLL_TYPES.PILOT_CHECK,
       d20 |-> d20Result,
       accuracy |-> accuracy,
       difficulty |-> difficulty,
       reason |-> reason,
       formula |-> pilotFormula(netAccuracy),
       netAccuracy |-> netAccuracy,
       modifierDice |-> confirmedDice,
       modifierValue |-> confirmedModifierValue,
       total |-> confirmedTotal,
       resultCategory |-> confirmedResult,
       resultLabel |-> PILOT_RESULTS[confirmedResult].label,
       conditionals |-> copyConditionals(conditionals),
       hasConditionals |-> hasConditionals(conditionals),
       potential |->
         potentialOrNull(conditionals,
           pilotPotential(netWithConditional, d20Result, allModifierDice))]

----------------------------------------------------------------------------
(* executeDicePool *)

\* `${n}d6`
poolFormula(n) == ToString(n) \o "d6"

\* Number of d6 of the single pool batch
totalPoolSize(poolSize, conditionals) == poolSize + sumValues(conditionals)

\* The draws executeDicePool requests from the draw source: one batch of
\* totalPoolSize d6.
poolDrawRequests(poolSize, conditionals) ==
  <<[sides |-> 6, count |-> totalPoolSize(poolSize, conditionals)]>>

\* Mutant of confirmedDice: every die of the batch is counted
confirmedDice_all(poolSize, allDiceResults) == allDiceResults

\* The dice counted for the confirmed result
confirmedDice(poolSize, allDiceResults) == slice0(allDiceResults, poolSize)

\* Mutant of potentialDice: only the conditional dice are counted
potentialDice_conditionalOnly(poolSize, allDiceResults) ==
  sliceFrom(allDiceResults, poolSize)

\* The dice counted for the potential result
potentialDice(poolSize, allDiceResults) == allDiceResults

\* The potential section of a dice pool
poolPotential(poolSize, conditionals, allDiceResults) ==
  LET allSuccesses == countSuccesses(potentialDice(poolSize, allDiceResults))
      confirmedSuccesses ==
        countSuccesses(confirmedDice(poolSize, allDiceResults))
      potentialResult == getPoolResultCategory(allSuccesses)
  IN  [formula |-> poolFormula(totalPoolSize(poolSize, conditionals)),
       poolSize |-> totalPoolSize(poolSize, conditionals),
       diceResults |-> allDiceResults,
       conditionalDice |-> sliceFrom(allDiceResults, poolSize),
       successes |-> allSuccesses,
       additionalSuccesses |-> allSuccesses - confirmedSuccesses,
       resultCategory |-> potentialResult,
       resultLabel |-> POOL_RESULTS[potentialResult].label]

\* The object executeDicePool returns when the draw source returned
\* allDiceResults for the d6 batch.
executeDicePool(poolSize, reason, conditionals, allDiceResults) ==
  LET confirmed == confirmedDice(poolSize, allDiceResults)
      confirmedSuccesses == countSuccesses(confirmed)
      confirmedResult == getPoolResultCategory(confirmedSuccesses)
  IN  [type |-> ROLL_TYPES.DICE_POOL,
       reason |-> reason,
       formula |-> poolFormula(poolSize),
       poolSize |-> poolSize,
       diceResults |-> confirmed,
       successes |-> confirmedSuccesses,
       resultCategory |-> confirmedResult,
       resultLabel |-> POOL_RESULTS[confirmedResult].label,
       conditionals |-> copyConditionals(conditionals),
       hasConditionals |-> hasConditionals(conditionals),
       potential |->
         potentialOrNull(conditionals,
           poolPotential(poolSize, conditionals, allDiceResults))]

----------------------------------------------------------------------------
(* The random draw source and the inputs of the model *)

\* What Roll(`${count}d${sides}`).evaluate() can return: count faces
Faces(sides) == IF sides = 20 THEN D20Faces ELSE D6Faces

drawOutcomes(request) == [1..request.count -> Faces(request.sides)]

\* The draw log entry of a request answered with `results`
drawn(request, results) ==
  [sides |-> request.sides, count |-> request.count, results |-> results]

\* Conditionals as gatherConditionalModifiers builds them: value > 0, a
\* non-blank reason, status pending
Conditional ==
  [value : 1..MaxCondVal, reason : {"contact"},
   status : {CONDITIONAL_STATUS.PENDING}]

ConditionalLists == UNION {[1..n -> Conditional] : n \in 0..MaxConds}

Reasons == {""}

----------------------------------------------------------------------------
(* State machine *)

\* getDefaultCharacterDowntimeData(); `projects` is not modelled
getDefaultCharacterDowntimeData ==
  [history |-> <<>>, stats |-> [totalActions |-> 0, lastDowntime |-> null]]

\* No executor invocation is live
EngineIdle ==
  /\ call = null
  /\ draws = <<>>
  /\ rollResult = null
  /\ thrown = null

\* No API caller holds conditional objects
ApiIdle ==
  /\ heap = <<>>
  /\ ledger = 0
  /\ resultConditionals = 0
  /\ mutations = 0

\* The tracker is open, no action is being executed, the character has no
\* stored downtime data and no marker is active
AppIdle ==
  /\ pc = "idle"
  /\ action = null
  /\ dialog = null
  /\ notes = null
  /\ chat = <<>>
  /\ downtimeData = getDefaultCharacterDowntimeData
  /\ activeMarker = null
  /\ clock = 1

\* A missing id (null): the ids of markers are non-empty strings
noId == ""

\* The world has no marker
StoreIdle ==
  /\ markers = <<>>
  /\ activeMarkerId = noId

\* No character is acted on and no other flow has started
FlowIdle ==
  /\ character = null
  /\ rollType = ""
  /\ effects = null
  /\ recorders = <<>>

Init == EngineIdle /\ ApiIdle /\ AppIdle /\ StoreIdle /\ FlowIdle

\* One invocation of executePilotCheck
PilotCheck ==
  \E accuracy \in 0..MaxAcc, difficulty \in 0..MaxAcc, reason \in Reasons,
     conditionals \in ConditionalLists :
    LET requests == pilotDrawRequests(accuracy, difficulty, conditionals) IN
    /\ call = null
    /\ UNCHANGED <<storeVars, flowVars, apiVars, appVars>>
    /\ \A i \in 1..Len(requests) : requests[i].count <= MaxBatch
    /\ \E d20 \in drawOutcomes(requests[1]) :
       \E d6 \in (IF Len(requests) > 1 THEN drawOutcomes(requests[2])
                  ELSE {<<>>}) :
         /\ call' = [type |-> ROLL_TYPES.PILOT_CHECK, accuracy |-> accuracy,
                     difficulty |-> difficulty, reason |-> reason,
                     conditionals |-> conditionals]
         /\ draws' = <<drawn(requests[1], d20)>>
                     \o (IF Len(requests) > 1
                           THEN <<drawn(requests[2], d6)>> ELSE <<>>)
         /\ thrown' = null
         /\ rollResult' = executePilotCheck(accuracy, difficulty, reason,
                                            conditionals, d20[1], d6)

\* One invocation of executeDicePool
DicePool ==
  \E poolSize \in 0..MaxPool, reason \in Reasons,
     conditionals \in ConditionalLists :
    LET requests == poolDrawRequests(poolSize, conditionals) IN
    /\ call = null
    /\ UNCHANGED <<storeVars, flowVars, apiVars, appVars>>
    /\ requests[1].count <= MaxBatch
    /\ \E d6 \in drawOutcomes(requests[1]) :
         /\ call' = [type |-> ROLL_TYPES.DICE_POOL, poolSize |-> poolSize,
                     reason |-> reason, conditionals |-> conditionals]
         /\ draws' = <<drawn(requests[1], d6)>>
         /\ thrown' = null
         /\ rollResult' = executeDicePool(poolSize, reason, conditionals, d6)

\* The dialog's Roll callback resolves with the result; the invocation's
\* locals are gone and the next roll starts afresh.
Resolve ==
  /\ call # null
  /\ call' = null
  /\ draws' = <<>>
  /\ thrown' = null
  /\ rollResult' = null
  /\ UNCHANGED <<storeVars, flowVars, apiVars, appVars>>

\* The errors Roll.evaluate() can raise
DrawErrors == {[message |-> "evaluation failed"]}

\* The draw log entry of a request the draw source answered with an error
failed(request, error) ==
  [sides |-> request.sides, count |-> request.count, results |-> <<>>,
   error |-> error]

\* Mutant of awaitRejected: the error is swallowed
awaitRejected_swallowed(error) == [thrown |-> null, rollResult |-> null]

\* `await roll.evaluate()` rejects and the executor has no try/catch: the
\* executor's promise rejects with the same error and returns nothing
awaitRejected(error) == [thrown |-> error, rollResult |-> null]

\* executePilotCheck whose d20 draw raises
PilotCheckD20Fails ==
  \E accuracy \in 0..MaxAcc, difficulty \in 0..MaxAcc, reason \in Reasons,
     conditionals \in ConditionalLists, error \in DrawErrors :
    LET requests == pilotDrawRequests(accuracy, difficulty, conditionals) IN
    /\ call = null
    /\ \A i \in 1..Len(requests) : requests[i].count <= MaxBatch
    /\ call' = [type |-> ROLL_TYPES.PILOT_CHECK, accuracy |-> accuracy,
                difficulty |-> difficulty, reason |-> reason,
                conditionals |-> conditionals]
    /\ draws' = <<failed(requests[1], error)>>
    /\ thrown' = awaitRejected(error).thrown
    /\ rollResult' = awaitRejected(error).rollResult
    /\ UNCHANGED <<apiVars, appVars, storeVars, flowVars>>

\* executePilotCheck whose d20 draw succeeds and whose d6 batch draw raises
PilotCheckModifierFails ==
  \E accuracy \in 0..MaxAcc, difficulty \in 0..MaxAcc, reason \in Reasons,
     conditionals \in ConditionalLists, error \in DrawErrors :
    LET requests == pilotDrawRequests(accuracy, difficulty, conditionals) IN
    /\ call = null
    /\ Len(requests) > 1
    /\ \A i \in 1..Len(requests) : requests[i].count <= MaxBatch
    /\ \E d20 \in drawOutcomes(requests[1]) :
         draws' = <<drawn(requests[1], d20), failed(requests[2], error)>>
    /\ call' = [type |-> ROLL_TYPES.PILOT_CHECK, accuracy |-> accuracy,
                difficulty |-> difficulty, reason |-> reason,
                conditionals |-> conditionals]
    /\ thrown' = awaitRejected(error).thrown
    /\ rollResult' = awaitRejected(error).rollResult
    /\ UNCHANGED <<apiVars, appVars, storeVars, flowVars>>

\* executeDicePool whose batch draw raises
DicePoolFails ==
  \E poolSize \in 0..MaxPool, reason \in Reasons,
     conditionals \in ConditionalLists, error \in DrawErrors :
    LET requests == poolDrawRequests(poolSize, conditionals) IN
    /\ call = null
    /\ requests[1].count <= MaxBatch
    /\ call' = [type |-> ROLL_TYPES.DICE_POOL, poolSize |-> poolSize,
                reason |-> reason, conditionals |-> conditionals]
    /\ draws' = <<failed(requests[1], error)>>
    /\ thrown' = awaitRejected(error).thrown
    /\ rollResult' = awaitRejected(error).rollResult
    /\ UNCHANGED <<apiVars, appVars, storeVars, flowVars>>

NextDrawFailure ==
  \/ PilotCheck \/ DicePool
  \/ PilotCheckD20Fails \/ PilotCheckModifierFails \/ DicePoolFails
  \/ Resolve

SpecDrawFailure == Init /\ [][NextDrawFailure]_vars

Next == PilotCheck \/ DicePool \/ Resolve

Spec == Init /\ [][Next]_vars

----------------------------------------------------------------------------
(* The executors called through the module API (game.modules.get(...).api   *)
(* pilotCheck / dicePool) with conditionals of any approval status          *)

StatusConditional ==
  [value : 1..MaxCondVal, reason : {"contact"},
   status : {CONDITIONAL_STATUS.PENDING, CONDITIONAL_STATUS.APPROVED,
             CONDITIONAL_STATUS.REJECTED}]

StatusConditionalLists ==
  UNION {[1..n -> StatusConditional] : n \in 0..MaxConds}

\* api.roll.pilotCheck({ accuracy, reason, conditionals }): difficulty is
\* left out and defaults to 0
ApiPilotCheck ==
  \E accuracy \in 0..MaxAcc, difficulty \in {0}, reason \in Reasons,
     conditionals \in StatusConditionalLists :
    LET requests == pilotDrawRequests(accuracy, difficulty, conditionals) IN
    /\ call = null
    /\ UNCHANGED <<storeVars, flowVars, apiVars, appVars>>
    /\ \A i \in 1..Len(requests) : requests[i].count <= MaxApiBatch
    /\ \E d20 \in drawOutcomes(requests[1]) :
       \E d6 \in (IF Len(requests) > 1 THEN drawOutcomes(requests[2])
                  ELSE {<<>>}) :
         /\ call' = [type |-> ROLL_TYPES.PILOT_CHECK, accuracy |-> accuracy,
                     difficulty |-> difficulty, reason |-> reason,
                     conditionals |-> conditionals]
         /\ draws' = <<drawn(requests[1], d20)>>
                     \o (IF Len(requests) > 1
                           THEN <<drawn(requests[2], d6)>> ELSE <<>>)
         /\ thrown' = null
         /\ rollResult' = executePilotCheck(accuracy, difficulty, reason,
                                            conditionals, d20[1], d6)

\* api.roll.dicePool({ poolSize, reason, conditionals })
ApiDicePool ==
  \E poolSize \in 0..MaxPool, reason \in Reasons,
     conditionals \in StatusConditionalLists :
    LET requests == poolDrawRequests(poolSize, conditionals) IN
    /\ call = null
    /\ UNCHANGED <<storeVars, flowVars, apiVars, appVars>>
    /\ requests[1].count <= MaxApiBatch
    /\ \E d6 \in drawOutcomes(requests[1]) :
         /\ call' = [type |-> ROLL_TYPES.DICE_POOL, poolSize |-> poolSize,
                     reason |-> reason, conditionals |-> conditionals]
         /\ draws' = <<drawn(requests[1], d6)>>
         /\ thrown' = null
         /\ rollResult' = executeDicePool(poolSize, reason, conditionals, d6)

NextStatus == ApiPilotCheck \/ ApiDicePool \/ Resolve

SpecStatus == Init /\ [][NextStatus]_vars

----------------------------------------------------------------------------
(* An API caller that keeps its conditional objects after the roll and      *)
(* changes them.  Objects and arrays live on `heap` (a reference is an      *)
(* index of it): `ledger` is the caller's array, `resultConditionals` the   *)
(* array the result holds in its `conditionals` field; 0 is no reference.   *)

conditionalObject(c) ==
  [kind |-> "conditional", value |-> c.value, reason |-> c.reason,
   status |-> c.status]

arrayObject(items) == [kind |-> "array", items |-> items]

\* The caller's literal [{ value, reason, status }, ...]: the objects, then
\* the array of them
newConditionals(conditionals) ==
  [i \in 1..Len(conditionals) |-> conditionalObject(conditionals[i])]
  \o <<arrayObject([i \in 1..Len(conditionals) |-> i])>>

\* The values of the conditionals an array holds
readConditionals(h, array) ==
  [i \in 1..Len(h[array].items) |->
     [value |-> h[h[array].items[i]].value,
      reason |-> h[h[array].items[i]].reason,
      status |-> h[h[array].items[i]].status]]

\* Mutant of mapSpread: a new array of the caller's objects
mapSpread_sameObjects(h, array) ==
  [heap |-> Append(h, arrayObject(h[array].items)), ref |-> Len(h) + 1]

\* conditionals.map(c => ({ ...c })) on the heap: a new object with the
\* fields of each element, and a new array of the new objects
mapSpread(h, array) ==
  LET items == h[array].items
      n == Len(items)
  IN  [heap |-> h \o [i \in 1..n |-> h[items[i]]]
                  \o <<arrayObject([i \in 1..n |-> Len(h) + i])>>,
       ref |-> Len(h) + n + 1]

\* The one outcome of the draw source in this specification
fixedDraw(request) ==
  [i \in 1..request.count |-> IF request.sides = 20 THEN 10 ELSE 5]

\* const r = await api.roll.pilotCheck({ accuracy, difficulty, conditionals })
KeptPilotCheck ==
  \E accuracy \in 0..MaxAcc, difficulty \in 0..MaxAcc, reason \in Reasons,
     conditionals \in ConditionalLists :
    LET requests == pilotDrawRequests(accuracy, difficulty, conditionals)
        h == newConditionals(conditionals)
        d6 == IF Len(requests) > 1 THEN fixedDraw(requests[2]) ELSE <<>>
        copied == mapSpread(h, Len(h))
    IN
    /\ call = null
    /\ \A i \in 1..Len(requests) : requests[i].count <= MaxApiBatch
    /\ call' = [type |-> ROLL_TYPES.PILOT_CHECK, accuracy |-> accuracy,
                difficulty |-> difficulty, reason |-> reason,
                conditionals |-> conditionals]
    /\ draws' = [i \in 1..Len(requests) |->
                   drawn(requests[i], fixedDraw(requests[i]))]
    /\ thrown' = null
    /\ rollResult' = executePilotCheck(accuracy, difficulty, reason,
                        readConditionals(h, Len(h)),
                        fixedDraw(requests[1])[1], d6)
    /\ ledger' = Len(h)
    /\ heap' = copied.heap
    /\ resultConditionals' = copied.ref
    /\ UNCHANGED <<storeVars, flowVars, mutations, appVars>>

\* const r = await api.roll.dicePool({ poolSize, conditionals })
KeptDicePool ==
  \E poolSize \in 0..MaxPool, reason \in Reasons,
     conditionals \in ConditionalLists :
    LET requests == poolDrawRequests(poolSize, conditionals)
        h == newConditionals(conditionals)
        copied == mapSpread(h, Len(h))
    IN
    /\ call = null
    /\ requests[1].count <= MaxApiBatch
    /\ call' = [type |-> ROLL_TYPES.DICE_POOL, poolSize |-> poolSize,
                reason |-> reason, conditionals |-> conditionals]
    /\ draws' = <<drawn(requests[1], fixedDraw(requests[1]))>>
    /\ thrown' = null
    /\ rollResult' = executeDicePool(poolSize, reason,
                        readConditionals(h, Len(h)), fixedDraw(requests[1]))
    /\ ledger' = Len(h)
    /\ heap' = copied.heap
    /\ resultConditionals' = copied.ref
    /\ UNCHANGED <<storeVars, flowVars, mutations, appVars>>

\* The caller assigns a field of one of its conditional objects (the referee
\* approves or rejects it, the player changes the value or the reason)
UpdateConditional ==
  /\ rollResult # null
  /\ mutations < MaxMutations
  /\ \E i \in 1..Len(heap[ledger].items) :
       LET o == heap[ledger].items[i] IN
       \E changed \in
            {[heap[o] EXCEPT !.status = st] :
               st \in {CONDITIONAL_STATUS.APPROVED,
                       CONDITIONAL_STATUS.REJECTED}}
            \cup {[heap[o] EXCEPT !.value = heap[o].value + 1],
                  [heap[o] EXCEPT !.reason = "withdrawn"]} :
         /\ changed # heap[o]
         /\ heap' = [heap EXCEPT ![o] = changed]
  /\ mutations' = mutations + 1
  /\ UNCHANGED <<storeVars, flowVars, engineVars, ledger, resultConditionals, appVars>>

\* The caller removes a conditional from its list: conditionals.splice(i, 1)
WithdrawConditional ==
  /\ rollResult # null
  /\ mutations < MaxMutations
  /\ \E i \in 1..Len(heap[ledger].items) :
       heap' = [heap EXCEPT ![ledger].items =
                  SubSeq(@, 1, i - 1) \o SubSeq(@, i + 1, Len(@))]
  /\ mutations' = mutations + 1
  /\ UNCHANGED <<storeVars, flowVars, engineVars, ledger, resultConditionals, appVars>>

NextSnapshot ==
  KeptPilotCheck \/ KeptDicePool \/ UpdateConditional \/ WithdrawConditional

SpecSnapshot == Init /\ [][NextSnapshot]_vars

----------------------------------------------------------------------------
(* The downtime tracker: a click on an action opens the roll dialog, the    *)
(* dialog's Roll button runs the executor on what the form holds, the       *)
(* result is posted to chat, a notes prompt follows and the action is       *)
(* recorded in the character's history.  One execution is followed.         *)
(* A text is a sequence of one-character strings.                           *)

Digits == <<"0", "1", "2", "3", "4", "5", "6", "7", "8", "9">>

isDigit(ch) == \E d \in 1..Len(Digits) : Digits[d] = ch

digitValue(ch) == (CHOOSE d \in 1..Len(Digits) : Digits[d] = ch) - 1

NaN == [isNaN |-> TRUE]

Number(n) == [isNaN |-> FALSE, value |-> n]

RECURSIVE trimStart(_)
trimStart(text) ==
  IF text # <<>> /\ text[1] = " " THEN trimStart(Tail(text)) ELSE text

RECURSIVE trimEnd(_)
trimEnd(text) ==
  IF text # <<>> /\ text[Len(text)] = " "
    THEN trimEnd(SubSeq(text, 1, Len(text) - 1))
    ELSE text

\* text.trim()
trim(text) == trimEnd(trimStart(text))

RECURSIVE leadingDigits(_)
leadingDigits(text) ==
  IF text # <<>> /\ isDigit(text[1])
    THEN <<text[1]>> \o leadingDigits(Tail(text))
    ELSE <<>>

RECURSIVE decimal(_)
decimal(digits) ==
  IF digits = <<>> THEN 0
  ELSE 10 * decimal(SubSeq(digits, 1, Len(digits) - 1))
       + digitValue(digits[Len(digits)])

\* parseInt(text): leading blanks, a sign, then the leading digits
parseInt(text) ==
  LET t == trimStart(text)
      signed == t # <<>> /\ t[1] \in {"-", "+"}
      digits == leadingDigits(IF signed THEN Tail(t) ELSE t)
  IN  IF digits = <<>> THEN NaN
      ELSE Number((IF signed /\ t[1] = "-" THEN -1 ELSE 1) * decimal(digits))

\* parseInt(text) || fallback: NaN and 0 are falsy
parseIntOr(text, fallback) ==
  LET n == parseInt(text)
  IN  IF n.isNaN THEN fallback ELSE IF n.value = 0 THEN fallback ELSE n.value

\* Mutant of gatherConditionalModifiers: every row is pushed
RECURSIVE gatherConditionalModifiers_all(_)
gatherConditionalModifiers_all(rows) ==
  IF rows = <<>> THEN <<>>
  ELSE <<[value |-> parseIntOr(rows[1].value, 0),
          reason |-> trim(rows[1].reason),
          status |-> CONDITIONAL_STATUS.PENDING]>>
       \o gatherConditionalModifiers_all(Tail(rows))

\* The conditionals of the form: a row is pushed when its value is positive
\* and its reason is not blank
RECURSIVE gatherConditionalModifiers(_)
gatherConditionalModifiers(rows) ==
  IF rows = <<>> THEN <<>>
  ELSE LET value == parseIntOr(rows[1].value, 0)
           reason == rows[1].reason
       IN  (IF value > 0 /\ trim(reason) # <<>>
              THEN <<[value |-> value, reason |-> trim(reason),
                      status |-> CONDITIONAL_STATUS.PENDING]>>
              ELSE <<>>)
           \o gatherConditionalModifiers(Tail(rows))

\* The actions the tracker offers here: one resolved as a pilot check, one
\* as a dice pool
Actions ==
  {[id |-> "buy_some_time", name |-> "Buy Some Time", rollType |-> "skill",
    actionSetId |-> "lancer-core"],
   [id |-> "recovery", name |-> "Recovery", rollType |-> "recovery",
    actionSetId |-> "far-field"]}

\* character?.hasFarFieldData
hasFarFieldData(c) == IF c = null THEN FALSE ELSE c.hasFarFieldData

\* Mutant of determineRollType: a Far Field character always rolls a pool
determineRollType_farFieldFirst(a, c) ==
  IF a.rollType \in {"dice-pool", "pool", "recovery"}
    THEN ROLL_TYPES.DICE_POOL
  ELSE IF hasFarFieldData(c) THEN ROLL_TYPES.DICE_POOL
  ELSE IF a.rollType = "pilot-check" THEN ROLL_TYPES.PILOT_CHECK
  ELSE IF a.actionSetId = "far-field" THEN ROLL_TYPES.DICE_POOL
  ELSE ROLL_TYPES.PILOT_CHECK

determineRollType(a, c) ==
  IF a.rollType \in {"dice-pool", "pool", "recovery"}
    THEN ROLL_TYPES.DICE_POOL
  ELSE IF a.rollType = "pilot-check" THEN ROLL_TYPES.PILOT_CHECK
  ELSE IF hasFarFieldData(c) THEN ROLL_TYPES.DICE_POOL
  ELSE IF a.actionSetId = "far-field" THEN ROLL_TYPES.DICE_POOL
  ELSE IF a.rollType = "skill" THEN ROLL_TYPES.PILOT_CHECK
  ELSE ROLL_TYPES.PILOT_CHECK

\* The LANCER pilot the tracker's execution is followed for
LancerPilot == [hasFarFieldData |-> FALSE]

\* The markers the referee has defined
Markers ==
  {[id |-> "m1", downtimeAllowed |-> TRUE],
   [id |-> "m2", downtimeAllowed |-> FALSE]}

\* The form as renderRollDialogContent renders it: base accuracy 0, base
\* pool 2, no conditional row
renderRollDialogContent(isPilotCheck) ==
  [isPilotCheck |-> isPilotCheck,
   accuracy |-> <<"0">>, difficulty |-> <<"0">>,
   poolSize |-> <<"2">>, bonusDice |-> <<"0">>,
   rows |-> <<>>]

\* The number fields of the form
NumberFields(isPilotCheck) ==
  IF isPilotCheck THEN {"accuracy", "difficulty"} ELSE {"poolSize", "bonusDice"}

\* What the user types into a number field
NumberTexts(field) ==
  IF field = "poolSize"
    THEN {<<>>, <<"0">>, <<"1">>, <<"2">>, <<"-", "1">>}
    ELSE {<<"0">>, <<"1">>}

\* What the user types into the fields of a conditional row
RowTexts(field) ==
  IF field = "value" THEN {<<"0">>, <<"1">>} ELSE {<<>>, <<" ">>, <<" ", "c">>}

\* What the user types into the notes prompt
NotesTexts == {"", "It went well"}


\* The sum updateRollPreview takes over every conditional row of the form
RECURSIVE conditionalBonus(_)
conditionalBonus(rows) ==
  IF rows = <<>> THEN 0
  ELSE parseIntOr(rows[1].value, 0) + conditionalBonus(Tail(rows))

\* updateRollPreview: the text of the 'Confirmed' formula, whether the
\* 'If approved' line is shown, and the text of its formula
updateRollPreview(form) ==
  LET bonus == conditionalBonus(form.rows) IN
  IF form.isPilotCheck
    THEN LET net == parseIntOr(form.accuracy, 0)
                    - parseIntOr(form.difficulty, 0)
         IN  [confirmed |-> pilotFormula(net),
              conditionalShown |-> bonus > 0,
              conditional |-> pilotFormula(net + bonus)]
    ELSE LET confirmedTotal == parseIntOr(form.poolSize, 2)
                               + parseIntOr(form.bonusDice, 0)
         IN  [confirmed |-> poolFormula(confirmedTotal),
              conditionalShown |-> bonus > 0,
              conditional |-> poolFormula(confirmedTotal + bonus)]

\* createHistoryEntry(sessionId, action, result): the function has three
\* parameters, so the marker id _recordAction passes fourth is dropped, and
\* its `result` copies three fields, so result.rollData is dropped
createHistoryEntry(sessionId, a, result, id, now) ==
  [id |-> id,
   actionId |-> a.id,
   actionName |-> a.name,
   timestamp |-> now,
   result |-> [success |-> result.success,
               rollResult |-> result.rollResult,
               description |-> result.description]]

\* Mutant of successFlag: the tier the roll could reach decides
successFlag_potential(result) ==
  LET tier == IF result.rollData.potential = null
                THEN result.rollResult
                ELSE result.rollData.potential.resultCategory
  IN  tier = "triumph" \/ tier = "success"

\* success: result.rollResult === "triumph" || result.rollResult === "success"
successFlag(result) ==
  result.rollResult = "triumph" \/ result.rollResult = "success"

\* Mutant of userCancelled: a null result is carried on
userCancelled_never(result) == FALSE

\* if (!rollResult) return
userCancelled(result) == result = null

\* The chat message of a roll
chatMessage(result, a) == [flavor |-> a.name, content |-> result]

\* activeMarker && !activeMarker.downtimeAllowed
downtimeRefused(marker) ==
  IF marker = null THEN FALSE ELSE ~marker.downtimeAllowed

\* game.settings.set(activeMarkerId): the referee activates a marker or none
SetActiveMarker ==
  /\ pc = "idle"
  /\ \E marker \in Markers \cup {null} :
       /\ marker # activeMarker
       /\ activeMarker' = marker
  /\ UNCHANGED <<storeVars, flowVars, engineVars, apiVars, pc, action, dialog, notes, chat,
                 downtimeData, clock>>

\* _onExecuteAction while the active marker forbids downtime
ExecuteActionRefused ==
  /\ pc = "idle"
  /\ downtimeRefused(activeMarker)
  /\ pc' = "refused"
  /\ UNCHANGED <<storeVars, flowVars, engineVars, apiVars, action, dialog, notes, chat,
                 downtimeData, activeMarker, clock>>

\* _onExecuteAction, _executeWithRoll up to the open roll dialog
ExecuteAction ==
  /\ pc = "idle"
  /\ ~downtimeRefused(activeMarker)
  /\ \E a \in Actions :
       /\ action' = a
       /\ dialog' = renderRollDialogContent(
                      determineRollType(a, LancerPilot) = ROLL_TYPES.PILOT_CHECK)
  /\ pc' = "rollDialog"
  /\ UNCHANGED <<storeVars, flowVars, engineVars, apiVars, notes, chat, downtimeData,
                 activeMarker, clock>>

\* The user types into a number field of the form
EnterNumber ==
  /\ pc = "rollDialog"
  /\ \E field \in NumberFields(dialog.isPilotCheck) :
       \E text \in NumberTexts(field) :
         /\ text # dialog[field]
         /\ dialog' = [dialog EXCEPT ![field] = text]
  /\ UNCHANGED <<storeVars, flowVars, engineVars, apiVars, pc, action, notes, chat, downtimeData,
                 activeMarker, clock>>

\* addConditionalModifier: a row with value 1 and no reason is appended
AddConditionalModifier ==
  /\ pc = "rollDialog"
  /\ Len(dialog.rows) < MaxConds
  /\ dialog' = [dialog EXCEPT
                  !.rows = Append(@, [value |-> <<"1">>, reason |-> <<>>])]
  /\ UNCHANGED <<storeVars, flowVars, engineVars, apiVars, pc, action, notes, chat, downtimeData,
                 activeMarker, clock>>

\* The user types into the value or the reason of a conditional row
EditConditional ==
  /\ pc = "rollDialog"
  /\ \E i \in 1..Len(dialog.rows) :
       \E field \in {"value", "reason"} :
         \E text \in RowTexts(field) :
           /\ text # dialog.rows[i][field]
           /\ dialog' = [dialog EXCEPT !.rows[i][field] = text]
  /\ UNCHANGED <<storeVars, flowVars, engineVars, apiVars, pc, action, notes, chat, downtimeData,
                 activeMarker, clock>>

\* The remove button of a conditional row
RemoveConditional ==
  /\ pc = "rollDialog"
  /\ \E i \in 1..Len(dialog.rows) :
       dialog' = [dialog EXCEPT
                   !.rows = SubSeq(@, 1, i - 1) \o SubSeq(@, i + 1, Len(@))]
  /\ UNCHANGED <<storeVars, flowVars, engineVars, apiVars, pc, action, notes, chat, downtimeData,
                 activeMarker, clock>>

\* The Roll button of a pilot check: executeRollFromDialog, resolve(result)
DialogRollPilotCheck ==
  /\ pc = "rollDialog"
  /\ dialog.isPilotCheck
  /\ \E reason \in Reasons :
       LET conditionals == gatherConditionalModifiers(dialog.rows)
           accuracy == parseIntOr(dialog.accuracy, 0)
           difficulty == parseIntOr(dialog.difficulty, 0)
           requests == pilotDrawRequests(accuracy, difficulty, conditionals)
       IN
       /\ \A i \in 1..Len(requests) : requests[i].count <= MaxApiBatch
       /\ \E d20 \in drawOutcomes(requests[1]) :
            \E d6 \in (IF Len(requests) > 1 THEN drawOutcomes(requests[2])
                        ELSE {<<>>}) :
              /\ call' = [type |-> ROLL_TYPES.PILOT_CHECK,
                          accuracy |-> accuracy, difficulty |-> difficulty,
                          reason |-> reason, conditionals |-> conditionals]
              /\ draws' = IF Len(requests) > 1
                            THEN <<drawn(requests[1], d20),
                                   drawn(requests[2], d6)>>
                            ELSE <<drawn(requests[1], d20)>>
              /\ thrown' = null
              /\ rollResult' = executePilotCheck(accuracy, difficulty, reason,
                                  conditionals, d20[1], d6)
  /\ pc' = "rollReturned"
  /\ dialog' = null
  /\ UNCHANGED <<storeVars, flowVars, apiVars, action, notes, chat, downtimeData, activeMarker,
                 clock>>

\* The Roll button of a dice pool: executeRollFromDialog, resolve(result).
\* What Roll does with a negative number of dice is not in the source: the
\* batch has at least zero dice here.
DialogRollDicePool ==
  /\ pc = "rollDialog"
  /\ ~dialog.isPilotCheck
  /\ \E reason \in Reasons :
       LET conditionals == gatherConditionalModifiers(dialog.rows)
           poolSize == parseIntOr(dialog.poolSize, 2)
           bonusDice == parseIntOr(dialog.bonusDice, 0)
           requests == poolDrawRequests(poolSize + bonusDice, conditionals)
       IN
       /\ requests[1].count >= 0
       /\ requests[1].count <= MaxApiBatch
       /\ \E d6 \in drawOutcomes(requests[1]) :
            /\ call' = [type |-> ROLL_TYPES.DICE_POOL,
                        poolSize |-> poolSize + bonusDice,
                        reason |-> reason, conditionals |-> conditionals]
            /\ draws' = <<drawn(requests[1], d6)>>
            /\ thrown' = null
            /\ rollResult' = executeDicePool(poolSize + bonusDice, reason,
                                conditionals, d6)
  /\ pc' = "rollReturned"
  /\ dialog' = null
  /\ UNCHANGED <<storeVars, flowVars, apiVars, action, notes, chat, downtimeData, activeMarker,
                 clock>>

\* The Cancel button of the roll dialog: resolve(null)
DialogCancel ==
  /\ pc = "rollDialog"
  /\ thrown' = null
  /\ rollResult' = null
  /\ pc' = "rollReturned"
  /\ dialog' = null
  /\ UNCHANGED <<storeVars, flowVars, call, draws, apiVars, action, notes, chat, downtimeData,
                 activeMarker, clock>>

\* The roll dialog is closed without a button: its promise stays pending
DialogClose ==
  /\ pc = "rollDialog"
  /\ pc' = "rollDialogClosed"
  /\ dialog' = null
  /\ UNCHANGED <<storeVars, flowVars, engineVars, apiVars, action, notes, chat, downtimeData,
                 activeMarker, clock>>

\* _executeWithRoll after the dialog returned null
ReturnCancelled ==
  /\ pc = "rollReturned"
  /\ userCancelled(rollResult)
  /\ pc' = "done"
  /\ UNCHANGED <<storeVars, flowVars, engineVars, apiVars, action, dialog, notes, chat,
                 downtimeData, activeMarker, clock>>

\* _executeWithRoll after the dialog returned a result: postRollToChat,
\* then the notes prompt opens
PostRollToChat ==
  /\ pc = "rollReturned"
  /\ ~userCancelled(rollResult)
  /\ chat' = Append(chat, chatMessage(rollResult, action))
  /\ pc' = "notesPrompt"
  /\ UNCHANGED <<storeVars, flowVars, engineVars, apiVars, action, dialog, notes, downtimeData,
                 activeMarker, clock>>

\* The Save button of the notes prompt
NotesSave ==
  /\ pc = "notesPrompt"
  /\ \E text \in NotesTexts : notes' = text
  /\ pc' = "notesReturned"
  /\ UNCHANGED <<storeVars, flowVars, engineVars, apiVars, action, dialog, chat, downtimeData,
                 activeMarker, clock>>

\* The Skip button of the notes prompt
NotesSkip ==
  /\ pc = "notesPrompt"
  /\ notes' = ""
  /\ pc' = "notesReturned"
  /\ UNCHANGED <<storeVars, flowVars, engineVars, apiVars, action, dialog, chat, downtimeData,
                 activeMarker, clock>>

\* The notes prompt is closed without a button: the prompt has no close
\* callback, its promise stays pending and _executeWithRoll never resumes
NotesClose ==
  /\ pc = "notesPrompt"
  /\ pc' = "notesClosed"
  /\ UNCHANGED <<storeVars, flowVars, engineVars, apiVars, action, dialog, notes, chat,
                 downtimeData, activeMarker, clock>>

\* _recordAction(character, action, { rollResult, notes, rollData })
RecordAction ==
  /\ pc = "notesReturned"
  /\ LET result == [rollResult |-> rollResult.resultCategory,
                    notes |-> notes, rollData |-> rollResult]
         historyEntry ==
           createHistoryEntry(null, action,
             [success |-> successFlag(result),
              rollResult |-> result.rollResult,
              description |-> result.notes,
              rollData |-> result.rollData],
             clock, clock)
     IN  downtimeData' =
           [downtimeData EXCEPT
              !.history = <<historyEntry>> \o @,
              !.stats = [totalActions |-> @.totalActions + 1,
                         lastDowntime |-> clock]]
  /\ clock' = clock + 1
  /\ pc' = "done"
  /\ UNCHANGED <<storeVars, flowVars, engineVars, apiVars, action, dialog, notes, chat,
                 activeMarker>>

NextApp ==
  \/ SetActiveMarker \/ ExecuteActionRefused \/ ExecuteAction
  \/ EnterNumber \/ AddConditionalModifier \/ EditConditional
  \/ RemoveConditional
  \/ DialogRollPilotCheck \/ DialogRollDicePool \/ DialogCancel
  \/ DialogClose
  \/ ReturnCancelled \/ PostRollToChat
  \/ NotesSave \/ NotesSkip \/ NotesClose
  \/ RecordAction

SpecApp == Init /\ [][NextApp]_vars

\* setActiveMarker, updateMarker or addMarker by the referee while an action
\* execution is between its click and its record
MarkerChange ==
  /\ pc \notin {"idle", "refused"}
  /\ \E marker \in Markers \cup {null} :
       /\ marker # activeMarker
       /\ activeMarker' = marker
  /\ UNCHANGED <<storeVars, flowVars, engineVars, apiVars, pc, action, dialog,
                 notes, chat, downtimeData, clock>>

NextMarkerChange == NextApp \/ MarkerChange

SpecMarkerChange == Init /\ [][NextMarkerChange]_vars

----------------------------------------------------------------------------
(* determineRollType applied to an action and a character *)

\* The values action.rollType takes in the action sets, and other text ("" is
\* a missing rollType)
ActionRollTypes ==
  {"dice-pool", "pool", "recovery", "pilot-check", "skill", "resource", ""}

ActionSetIds == {"lancer-core", "far-field", "custom"}

RollTypeActions ==
  [id : {"an_action"}, name : {"An Action"}, rollType : ActionRollTypes,
   actionSetId : ActionSetIds]

\* The character given to determineRollType: none, a LANCER pilot, a Far
\* Field character
Characters ==
  {null, [hasFarFieldData |-> FALSE], [hasFarFieldData |-> TRUE]}

InitRollType ==
  /\ EngineIdle /\ ApiIdle /\ StoreIdle
  /\ pc = "idle" /\ dialog = null /\ notes = null /\ chat = <<>>
  /\ downtimeData = getDefaultCharacterDowntimeData
  /\ activeMarker = null /\ clock = 1
  /\ rollType = "" /\ effects = null /\ recorders = <<>>
  /\ action \in RollTypeActions
  /\ character \in Characters

\* const rollType = determineRollType(action, character)
DetermineRollType ==
  /\ rollType = ""
  /\ rollType' = determineRollType(action, character)
  /\ UNCHANGED <<engineVars, apiVars, appVars, storeVars, character, effects,
                 recorders>>

NextRollType == DetermineRollType

SpecRollType == InitRollType /\ [][NextRollType]_vars

----------------------------------------------------------------------------
(* The marker store: the settings markers and activeMarkerId *)

MaxMarkers == 3

\* The ids createMarker gives to markers
MarkerIds == {"m1", "m2", "m3"}

markerIds(ms) == {ms[i].id : i \in DOMAIN ms}

\* markers.find(m => m.id === activeId) || null, after if (!activeId)
getActiveMarker(ms, activeId) ==
  IF activeId = noId THEN null
  ELSE IF activeId \in markerIds(ms)
    THEN ms[CHOOSE i \in DOMAIN ms :
              /\ ms[i].id = activeId
              /\ \A j \in DOMAIN ms : ms[j].id = activeId => i <= j]
  ELSE null

\* markers.filter(m => m.id !== markerId)
withoutMarker(ms, markerId) ==
  LET kept(m) == m.id # markerId IN SelectSeq(ms, kept)

\* Mutant of fallback: no marker is active after the active one is deleted
fallback_none(ms) == noId

\* markers.length > 0 ? markers[markers.length - 1].id : null
fallback(ms) == IF Len(ms) > 0 THEN ms[Len(ms)].id ELSE noId

\* addMarker: the new marker is pushed and becomes the active one
AddMarker ==
  /\ Len(markers) < MaxMarkers
  /\ \E id \in MarkerIds \ markerIds(markers), downtimeAllowed \in BOOLEAN :
       LET marker == [id |-> id, downtimeAllowed |-> downtimeAllowed]
       IN  /\ markers' = Append(markers, marker)
           /\ activeMarkerId' = marker.id
  /\ UNCHANGED <<engineVars, apiVars, appVars, flowVars>>

\* _onSelectMarker, setActiveMarker: the id of a marker of the list
SelectMarker ==
  /\ \E markerId \in markerIds(markers) :
       /\ markerId # activeMarkerId
       /\ activeMarkerId' = markerId
  /\ UNCHANGED <<engineVars, apiVars, appVars, flowVars, markers>>

\* updateMarker: the referee changes downtimeAllowed of a marker
UpdateMarker ==
  /\ \E index \in DOMAIN markers :
       markers' = [markers EXCEPT
                     ![index].downtimeAllowed = ~@]
  /\ UNCHANGED <<engineVars, apiVars, appVars, flowVars, activeMarkerId>>

\* deleteMarker: the marker leaves the list; when it was the active one the
\* last remaining marker, or none, becomes active
DeleteMarker ==
  /\ \E markerId \in markerIds(markers) :
       LET remaining == withoutMarker(markers, markerId)
       IN  /\ markers' = remaining
           /\ activeMarkerId' =
                IF activeMarkerId = markerId THEN fallback(remaining)
                ELSE activeMarkerId
  /\ UNCHANGED <<engineVars, apiVars, appVars, flowVars>>

NextMarkers == AddMarker \/ SelectMarker \/ UpdateMarker \/ DeleteMarker

SpecMarkers == Init /\ [][NextMarkers]_vars

----------------------------------------------------------------------------
(* Recordings of actions for one character: each reads the actor's flag and
   hands the whole new value to setFlag, which stores it later *)

MaxRecordings == 2

\* The tiers of the recorded rolls
RecordedTiers == {"triumph", "conflict"}

\* foundry.utils.mergeObject(currentData, {history, stats}, {inplace: false})
mergeObject(currentData, data) ==
  [currentData EXCEPT
     !.history = data.history,
     !.stats = [@ EXCEPT !.totalActions = data.stats.totalActions,
                         !.lastDowntime = data.stats.lastDowntime]]

\* _recordAction and updateCharacterDowntimeData up to the call of setFlag:
\* the value built from the stored data
newDowntimeData(stored, historyEntry, now) ==
  mergeObject(stored,
    [history |-> <<historyEntry>> \o stored.history,
     stats |-> [totalActions |-> stored.stats.totalActions + 1,
                lastDowntime |-> now]])

\* _recordAction up to its await: the stored data is read, the new value is
\* built and given to actor.setFlag
RecordingReads ==
  /\ Len(recorders) < MaxRecordings
  /\ \E a \in Actions, tier \in RecordedTiers :
       LET result == [rollResult |-> tier, notes |-> <<>>]
           historyEntry ==
             createHistoryEntry(null, a,
               [success |-> successFlag(result),
                rollResult |-> result.rollResult,
                description |-> result.notes],
               clock, clock)
       IN  recorders' =
             Append(recorders,
               [written |-> FALSE,
                newData |-> newDowntimeData(downtimeData, historyEntry, clock)])
  /\ clock' = clock + 1
  /\ UNCHANGED <<engineVars, apiVars, storeVars, pc, action, dialog, notes,
                 chat, downtimeData, activeMarker, character, rollType,
                 effects>>

\* actor.setFlag completes: the flag takes the value it was called with
RecordingWrites ==
  /\ \E r \in DOMAIN recorders :
       /\ ~recorders[r].written
       /\ downtimeData' = recorders[r].newData
       /\ recorders' = [recorders EXCEPT ![r].written = TRUE]
  /\ UNCHANGED <<engineVars, apiVars, storeVars, pc, action, dialog, notes,
                 chat, activeMarker, clock, character, rollType, effects>>

NextRecordings == RecordingReads \/ RecordingWrites

SpecRecordings == Init /\ [][NextRecordings]_vars

----------------------------------------------------------------------------
(* applyTakeABreakEffects on a Far Field character *)

MaxAspects == 2
MaxBurned == 2
MaxBurdens == 1

\* An aspect with its burned boxes among its marked boxes
Aspect(id) ==
  {aspect \in [id : {id}, marked : 0..MaxBurned, burned : 0..MaxBurned] :
     aspect.burned <= aspect.marked}

AspectLists ==
  UNION {{aspects \in [1..n -> UNION {Aspect(id) : id \in 1..n}] :
            \A i \in 1..n : aspects[i].id = i} : n \in 0..MaxAspects}

BurdenLists == {[i \in 1..n |-> [id |-> i]] : n \in 0..MaxBurdens}

\* The flag "character" of the Far Field module
CharacterData == [aspects : AspectLists, burdens : BurdenLists]

\* this.characterData.aspects || []
getAspects(charData) == charData.aspects

\* this.characterData.burdens || []
getBurdens(charData) == charData.burdens

Max(a, b) == IF a >= b THEN a ELSE b

\* aspects.find(a => a.id === aspectId), as an index (0: none)
findAspect(aspects, aspectId) ==
  IF \E i \in DOMAIN aspects : aspects[i].id = aspectId
    THEN CHOOSE i \in DOMAIN aspects :
           /\ aspects[i].id = aspectId
           /\ \A j \in DOMAIN aspects : aspects[j].id = aspectId => i <= j
  ELSE 0

\* clearAspectMarks(aspectId) with count = null: the flag after setFlag
clearAspectMarks(charData, aspectId) ==
  LET i == findAspect(charData.aspects, aspectId)
  IN  IF i = 0 THEN charData
      ELSE [charData EXCEPT !.aspects[i].marked = charData.aspects[i].burned]

\* clearAspectBurn(aspectId, count): the flag after setFlag
clearAspectBurn(charData, aspectId, count) ==
  LET i == findAspect(charData.aspects, aspectId)
  IN  IF i # 0 /\ charData.aspects[i].burned > 0
        THEN LET burned == Max(0, charData.aspects[i].burned - count)
             IN  [charData EXCEPT
                    !.aspects[i].burned = burned,
                    !.aspects[i].marked = Max(@, burned)]
      ELSE charData

\* removeBurden(burdenId): the flag after setFlag
removeBurden(charData, burdenId) ==
  LET kept(b) == b.id # burdenId
  IN  [charData EXCEPT !.burdens = SelectSeq(@, kept)]

\* The const aspect of the for loop: the object of the array getAspects()
\* returned at the start of the loop. When the store hands out its own
\* objects the writes of the adapter show in it; when each read of the flag
\* gives a fresh copy it stays as it was read.
loopAspect ==
  IF effects.fresh THEN effects.aspects[effects.index]
  ELSE character.characterData.aspects[effects.index]

InitTakeABreak ==
  /\ EngineIdle /\ ApiIdle /\ AppIdle /\ StoreIdle
  /\ rollType = "" /\ recorders = <<>>
  /\ \E charData \in CharacterData :
       character = [hasFarFieldData |-> TRUE, characterData |-> charData]
  /\ \E fresh \in BOOLEAN :
       effects = [pc |-> "start", fresh |-> fresh, aspects |-> <<>>,
                  burdens |-> <<>>, index |-> 0]

\* for (const aspect of adapter.getAspects())
ApplyTakeABreakEffects ==
  /\ effects.pc = "start"
  /\ effects' = [effects EXCEPT
                   !.pc = "forAspect",
                   !.aspects = getAspects(character.characterData),
                   !.index = 1]
  /\ UNCHANGED <<engineVars, apiVars, appVars, storeVars, character, rollType,
                 recorders>>

\* await adapter.clearAspectMarks(aspect.id)
ClearAspectMarks ==
  /\ effects.pc = "forAspect"
  /\ effects.index <= Len(effects.aspects)
  /\ character' =
       [character EXCEPT
          !.characterData = clearAspectMarks(@, effects.aspects[effects.index].id)]
  /\ effects' = [effects EXCEPT !.pc = "while"]
  /\ UNCHANGED <<engineVars, apiVars, appVars, storeVars, rollType, recorders>>

\* while (aspect.burned > 0): adapter.clearAspectBurn(aspect.id, aspect.burned)
\* is called
ClearAspectBurn ==
  /\ effects.pc = "while"
  /\ loopAspect.burned > 0
  /\ character' =
       [character EXCEPT
          !.characterData = clearAspectBurn(@, loopAspect.id, loopAspect.burned)]
  /\ effects' = [effects EXCEPT !.pc = "awaitBurn"]
  /\ UNCHANGED <<engineVars, apiVars, appVars, storeVars, rollType, recorders>>

\* The awaited clearAspectBurn returns: the while condition is tested again
ClearAspectBurnReturns ==
  /\ effects.pc = "awaitBurn"
  /\ effects' = [effects EXCEPT !.pc = "while"]
  /\ UNCHANGED <<engineVars, apiVars, appVars, storeVars, character, rollType,
                 recorders>>

\* aspect.burned > 0 is false: the for loop takes the next aspect
NextAspect ==
  /\ effects.pc = "while"
  /\ ~(loopAspect.burned > 0)
  /\ effects' = [effects EXCEPT !.pc = "forAspect", !.index = @ + 1]
  /\ UNCHANGED <<engineVars, apiVars, appVars, storeVars, character, rollType,
                 recorders>>

\* for (const burden of adapter.getBurdens())
AspectsDone ==
  /\ effects.pc = "forAspect"
  /\ effects.index > Len(effects.aspects)
  /\ effects' = [effects EXCEPT
                   !.pc = "forBurden",
                   !.burdens = getBurdens(character.characterData),
                   !.index = 1]
  /\ UNCHANGED <<engineVars, apiVars, appVars, storeVars, character, rollType,
                 recorders>>

\* await adapter.removeBurden(burden.id)
RemoveBurden ==
  /\ effects.pc = "forBurden"
  /\ effects.index <= Len(effects.burdens)
  /\ character' =
       [character EXCEPT
          !.characterData = removeBurden(@, effects.burdens[effects.index].id)]
  /\ effects' = [effects EXCEPT !.index = @ + 1]
  /\ UNCHANGED <<engineVars, apiVars, appVars, storeVars, rollType, recorders>>

\* return { success: true }
TakeABreakReturns ==
  /\ effects.pc = "forBurden"
  /\ effects.index > Len(effects.burdens)
  /\ effects' = [effects EXCEPT !.pc = "done"]
  /\ UNCHANGED <<engineVars, apiVars, appVars, storeVars, character, rollType,
                 recorders>>

NextTakeABreak ==
  \/ ApplyTakeABreakEffects \/ ClearAspectMarks \/ ClearAspectBurn
  \/ ClearAspectBurnReturns \/ NextAspect \/ AspectsDone \/ RemoveBurden
  \/ TakeABreakReturns

\* The event loop runs every continuation whose promise has settled
SpecTakeABreak ==
  InitTakeABreak /\ [][NextTakeABreak]_vars /\ WF_vars(NextTakeABreak)

----------------------------------------------------------------------------
(* Vocabulary of the properties *)

isPilot == rollResult # null /\ rollResult.type = ROLL_TYPES.PILOT_CHECK

isPool == rollResult # null /\ rollResult.type = ROLL_TYPES.DICE_POOL

hasPotential == rollResult # null /\ rollResult.potential # null

\* The draws of the live invocation with the given number of sides
drawsOf(sides) == SelectSeq(draws, LAMBDA d : d.sides = sides)

\* The d6 values the draw source returned to the live invocation, in order
RECURSIVE flatten(_)
flatten(ds) == IF ds = <<>> THEN <<>> ELSE ds[1].results \o flatten(Tail(ds))

d6Drawn == flatten(drawsOf(6))

\* net = accuracy - difficulty of the live pilot check
callNet == call.accuracy - call.difficulty

\* Sum of the values of the conditionals given to the executor
callConditionalSum == sumValues(call.conditionals)

SetMax(S) == CHOOSE m \in S : \A x \in S : m >= x

\* Highest value among the first k elements of xs (k >= 1)
MaxOfFirst(xs, k) == SetMax({xs[i] : i \in 1..k})

TierRank(tier) ==
  CASE tier = "disaster" -> 0
    [] tier = "conflict" -> 1
    [] tier = "success" -> 2
    [] tier = "triumph" -> 3

----------------------------------------------------------------------------
(* Properties *)

\* C1: in every roll result that has a potential section the confirmed dice
\* are a prefix of the potential dice: for a pilot check modifierDice is the
\* first |accuracy - difficulty| elements of potential.modifierDice, for a
\* dice pool diceResults is the first poolSize elements of
\* potential.diceResults.
C1_ConfirmedDiceArePrefix ==
  hasPotential =>
    IF isPilot
      THEN /\ Len(rollResult.potential.modifierDice) >= Abs(callNet)
           /\ rollResult.modifierDice =
                SubSeq(rollResult.potential.modifierDice, 1, Abs(callNet))
      ELSE /\ Len(rollResult.potential.diceResults) >= call.poolSize
           /\ rollResult.diceResults =
                SubSeq(rollResult.potential.diceResults, 1, call.poolSize)

\* A pilot check whose confirmed dice are a non-empty strict prefix of dice
\* that are not all equal
C1_Witness ==
  /\ isPilot /\ hasPotential
  /\ Len(rollResult.modifierDice) >= 1
  /\ Len(rollResult.potential.modifierDice) > Len(rollResult.modifierDice)
  /\ rollResult.potential.modifierDice[1]
       # rollResult.potential.modifierDice[Len(rollResult.potential.modifierDice)]

\* C2: an invocation draws the d20 exactly once (pilot check only) and makes
\* at most one d6 batch draw, of size max(|net|, |net + conditional sum|)
\* for a pilot check and poolSize + conditional sum for a dice pool; the
\* confirmed and the potential result are derived from that one draw set and
\* the potential total uses the d20 value of the confirmed total.
C2_SingleDrawSet ==
  rollResult # null =>
    /\ Len(drawsOf(6)) <= 1
    /\ Len(drawsOf(6)) + Len(drawsOf(20)) = Len(draws)
    /\ IF isPilot
         THEN /\ Len(drawsOf(20)) = 1
              /\ drawsOf(20)[1].count = 1
              /\ Len(d6Drawn) =
                   MathMax2(Abs(callNet), Abs(callNet + callConditionalSum))
              /\ rollResult.d20 = drawsOf(20)[1].results[1]
              /\ rollResult.total - rollResult.modifierValue = rollResult.d20
              /\ \A i \in 1..Len(rollResult.modifierDice) :
                   rollResult.modifierDice[i] = d6Drawn[i]
              /\ hasPotential =>
                   /\ rollResult.potential.modifierDice = d6Drawn
                   /\ rollResult.potential.total
                        - rollResult.potential.modifierValue = rollResult.d20
         ELSE /\ Len(drawsOf(20)) = 0
              /\ Len(drawsOf(6)) = 1
              /\ Len(d6Drawn) = call.poolSize + callConditionalSum
              /\ \A i \in 1..Len(rollResult.diceResults) :
                   rollResult.diceResults[i] = d6Drawn[i]
              /\ hasPotential => rollResult.potential.diceResults = d6Drawn

\* A net-negative pilot check whose conditionals bring the net closer to 0:
\* the batch has |net| dice, more than |net + sum|
C2_Witness ==
  /\ isPilot /\ hasPotential
  /\ callNet < 0
  /\ Abs(callNet + callConditionalSum) < Abs(callNet)
  /\ Len(d6Drawn) = Abs(callNet)

C5_PoolSuccesses ==
  isPool =>
    /\ rollResult.successes =
         Cardinality({i \in 1..call.poolSize : d6Drawn[i] >= 5})
    /\ Len(call.conditionals) > 0 =>
         /\ hasPotential
         /\ rollResult.potential.successes =
              Cardinality({i \in 1..(call.poolSize + callConditionalSum) :
                             d6Drawn[i] >= 5})

\* A dice pool with a 4 and a 5 among the confirmed dice and a success among
\* the conditional dice
C5_Witness ==
  /\ isPool /\ hasPotential
  /\ \E i, j \in 1..call.poolSize : d6Drawn[i] = 4 /\ d6Drawn[j] = 5
  /\ rollResult.potential.successes > rollResult.successes

\* The result with its conditional data and potential section removed
ConfirmedSection(result) ==
  [f \in DOMAIN result \ {"conditionals", "hasConditionals", "potential"} |->
     result[f]]

\* C6: for a fixed stream of drawn dice the confirmed section of a roll
\* result (formula, dice used, modifier value, total or success count, tier)
\* is that of the same check executed with no conditionals on the same
\* stream, hence the same for every list of conditionals.
C6_ConfirmedIgnoresConditionals ==
  rollResult # null =>
    IF isPilot
      THEN ConfirmedSection(rollResult) =
             ConfirmedSection(
               executePilotCheck(call.accuracy, call.difficulty, call.reason,
                 <<>>, drawsOf(20)[1].results[1],
                 SubSeq(d6Drawn, 1, Abs(callNet))))
      ELSE ConfirmedSection(rollResult) =
             ConfirmedSection(
               executeDicePool(call.poolSize, call.reason, <<>>,
                 SubSeq(d6Drawn, 1, call.poolSize)))

\* A pilot check with conditionals whose extra dice hold a value higher than
\* every confirmed die
C6_Witness ==
  /\ isPilot /\ hasPotential
  /\ callNet > 0
  /\ rollResult.potential.modifierValue > rollResult.modifierValue

\* C7: the classifier maps a pilot-check total to triumph when total >= 20,
\* success when 10 <= total < 20, conflict when 1 <= total < 10 and disaster
\* otherwise, and a dice-pool success count to triumph when count >= 3,
\* success when count = 2, conflict when count = 1, disaster when count = 0.
C7_PilotTier(total) ==
  CASE total >= 20 -> "triumph"
    [] total >= 10 /\ total < 20 -> "success"
    [] total >= 1 /\ total < 10 -> "conflict"
    [] OTHER -> "disaster"

C7_PoolTier(count) ==
  CASE count >= 3 -> "triumph"
    [] count = 2 -> "success"
    [] count = 1 -> "conflict"
    [] count = 0 -> "disaster"

C7_Classifier ==
  rollResult # null =>
    IF isPilot
      THEN /\ rollResult.resultCategory = C7_PilotTier(rollResult.total)
           /\ hasPotential =>
                rollResult.potential.resultCategory =
                  C7_PilotTier(rollResult.potential.total)
      ELSE /\ rollResult.resultCategory = C7_PoolTier(rollResult.successes)
           /\ hasPotential =>
                rollResult.potential.resultCategory =
                  C7_PoolTier(rollResult.potential.successes)

\* A pilot check with a confirmed total of exactly 20 and a potential total
\* above 20
C7_Witness ==
  /\ isPilot /\ hasPotential
  /\ rollResult.total = 20
  /\ rollResult.potential.total > 20
  /\ rollResult.resultCategory = "triumph"

\* C8 as stated: pilot-check totals of exactly 20, 10, 1, 0 and -1 are
\* classified as triumph, success, conflict, conflict and disaster.
C8_BoundariesAsStated ==
  isPilot =>
    /\ rollResult.total = 20 => rollResult.resultCategory = "triumph"
    /\ rollResult.total = 10 => rollResult.resultCategory = "success"
    /\ rollResult.total = 1 => rollResult.resultCategory = "conflict"
    /\ rollResult.total = 0 => rollResult.resultCategory = "conflict"
    /\ rollResult.total = -1 => rollResult.resultCategory = "disaster"

\* C8 amended: pilot-check totals of exactly 20, 10, 1, 0 and -1 are
\* classified as triumph, success, conflict, disaster and disaster.
C8_Boundaries ==
  isPilot =>
    /\ rollResult.total = 20 => rollResult.resultCategory = "triumph"
    /\ rollResult.total = 10 => rollResult.resultCategory = "success"
    /\ rollResult.total = 1 => rollResult.resultCategory = "conflict"
    /\ rollResult.total = 0 => rollResult.resultCategory = "disaster"
    /\ rollResult.total = -1 => rollResult.resultCategory = "disaster"

\* A pilot check with a confirmed total of exactly 0
C8_Witness ==
  /\ isPilot
  /\ rollResult.total = 0
  /\ rollResult.resultCategory = "disaster"

\* C9: the result has a potential section if and only if the conditionals
\* given to the executor were non-empty, hasConditionals is true exactly
\* when potential is non-null, and the confirmed section is present in every
\* result.
C9_PotentialIffConditionals ==
  rollResult # null =>
    /\ (rollResult.potential # null) <=> (Len(call.conditionals) > 0)
    /\ rollResult.hasConditionals <=> (rollResult.potential # null)
    /\ {"formula", "resultCategory", "resultLabel"} \subseteq DOMAIN rollResult
    /\ IF isPilot
         THEN {"modifierDice", "modifierValue", "total"}
                \subseteq DOMAIN rollResult
         ELSE {"diceResults", "successes"} \subseteq DOMAIN rollResult

\* A result without a potential section, of a check with net # 0
C9_Witness ==
  /\ isPilot
  /\ call.conditionals = <<>>
  /\ callNet # 0
  /\ rollResult.potential = null

\* C10: for every dice pool with non-empty conditionals and every batch the
\* potential success count is >= the confirmed success count and the
\* potential tier is not lower than the confirmed tier.
C10_PoolPotentialNotLower ==
  (isPool /\ Len(call.conditionals) > 0) =>
    /\ hasPotential
    /\ rollResult.potential.successes >= rollResult.successes
    /\ TierRank(rollResult.potential.resultCategory)
         >= TierRank(rollResult.resultCategory)

\* A dice pool whose confirmed dice hold successes and whose conditional
\* dice hold none
C10_Witness ==
  /\ isPool /\ hasPotential
  /\ rollResult.successes >= 1
  /\ rollResult.potential.successes = rollResult.successes
  /\ rollResult.potential.additionalSuccesses = 0

\* C13 as stated: a pilot check whose primary modifier (accuracy -
\* difficulty) is 0 draws zero d6 and applies no modifier, so its confirmed
\* total equals the d20 draw.
C13_ZeroNetAsStated ==
  (isPilot /\ callNet = 0) =>
    /\ Len(d6Drawn) = 0
    /\ rollResult.modifierValue = 0
    /\ rollResult.total = drawsOf(20)[1].results[1]

\* C13 amended: a pilot check whose primary modifier is 0 uses no d6 for
\* its confirmed result and applies no confirmed modifier, so its confirmed
\* total equals the d20 draw; it draws zero d6 when it has no conditionals,
\* and otherwise exactly the d6 of the potential result, one per point of
\* the conditional sum.
C13_ZeroNet ==
  (isPilot /\ callNet = 0) =>
    /\ rollResult.modifierDice = <<>>
    /\ rollResult.modifierValue = 0
    /\ rollResult.total = drawsOf(20)[1].results[1]
    /\ Len(d6Drawn) = callConditionalSum

\* A pilot check with net 0 and no conditionals
C13_Witness ==
  /\ isPilot
  /\ callNet = 0
  /\ call.accuracy > 0
  /\ call.conditionals = <<>>
  /\ draws = <<drawn([sides |-> 20, count |-> 1], <<rollResult.total>>)>>

\* The conditionals with every status set to pending
allPending(conditionals) ==
  [i \in 1..Len(conditionals) |->
     [conditionals[i] EXCEPT !.status = CONDITIONAL_STATUS.PENDING]]

\* The result without the conditionals it embeds
WithoutConditionals(result) ==
  [f \in DOMAIN result \ {"conditionals"} |-> result[f]]

\* C16: the potential result is computed with the sum of the values of all
\* conditionals given to the executor whatever their approval status: the
\* result, but for the conditionals it embeds, is that of the same check on
\* the same draws with every conditional pending, and the potential modifier
\* count is net + the sum over all conditionals.
C16_StatusIgnored ==
  rollResult # null =>
    /\ WithoutConditionals(rollResult) =
         WithoutConditionals(
           IF isPilot
             THEN executePilotCheck(call.accuracy, call.difficulty,
                    call.reason, allPending(call.conditionals),
                    drawsOf(20)[1].results[1], d6Drawn)
             ELSE executeDicePool(call.poolSize, call.reason,
                    allPending(call.conditionals), d6Drawn))
    /\ hasPotential =>
         IF isPilot
           THEN rollResult.potential.netAccuracy = callNet + callConditionalSum
           ELSE /\ rollResult.potential.poolSize =
                     call.poolSize + callConditionalSum
                /\ Len(rollResult.potential.diceResults) =
                     call.poolSize + callConditionalSum

\* A dice pool with one rejected and one approved conditional whose dice are
\* both counted
C16_Witness ==
  /\ isPool /\ hasPotential
  /\ Len(call.conditionals) = 2
  /\ call.conditionals[1].status = CONDITIONAL_STATUS.REJECTED
  /\ call.conditionals[2].status = CONDITIONAL_STATUS.APPROVED
  /\ call.poolSize = 0
  /\ rollResult.potential.successes = 2

\* C15: the conditionals embedded in a produced roll result are a snapshot:
\* after the caller removed a conditional from its list or changed the
\* value, reason or status of a conditional object it passed, the result
\* reads as when it was produced, its conditionals being those given to the
\* executor.
C15_ConditionalsSnapshot ==
  (rollResult # null /\ resultConditionals # 0) =>
    /\ readConditionals(heap, resultConditionals) = call.conditionals
    /\ rollResult.conditionals = call.conditionals
    /\ rollResult =
         IF isPilot
           THEN executePilotCheck(call.accuracy, call.difficulty, call.reason,
                  call.conditionals, drawsOf(20)[1].results[1], d6Drawn)
           ELSE executeDicePool(call.poolSize, call.reason,
                  call.conditionals, d6Drawn)

\* The caller changed a conditional it had passed to the executor
C15_Witness ==
  /\ rollResult # null /\ resultConditionals # 0
  /\ mutations = 1
  /\ Len(heap[ledger].items) = Len(call.conditionals)
  /\ readConditionals(heap, ledger) # call.conditionals
  /\ Len(rollResult.conditionals) >= 1

(* Vocabulary of the tracker's properties *)

\* The number a conditional row's value field reads, 0 when it reads none
rowValue(row) ==
  LET n == parseInt(row.value) IN IF n.isNaN THEN 0 ELSE n.value

isBlank(text) == \A i \in 1..Len(text) : text[i] = " "

rowIsValid(row) == rowValue(row) > 0 /\ ~isBlank(row.reason)

conditionalIsValid(c) == c.value > 0 /\ ~isBlank(c.reason)

\* The Roll button is pressed in this step and the dialog returns a result
RollPressed == pc = "rollDialog" /\ pc' = "rollReturned" /\ rollResult' # null

\* The history entries written by the execution followed
history == downtimeData.history

\* The flow takes no further step
flowEnded == pc \in {"done", "refused", "rollDialogClosed", "notesClosed"}

C12_InvalidSpecFailsFast ==
  (call # null
   /\ (\/ call.type \notin {ROLL_TYPES.PILOT_CHECK, ROLL_TYPES.DICE_POOL}
       \/ (call.type = ROLL_TYPES.DICE_POOL /\ call.poolSize < 0)))
  => (rollResult = null /\ draws = <<>>)

\* C14: a dice pool of size 0 is permitted: it yields 0 confirmed successes,
\* tier disaster, and no draw is performed.
C14_ZeroPool ==
  [][(RollPressed /\ ~dialog.isPilotCheck
      /\ dialog.poolSize = <<"0">> /\ dialog.bonusDice = <<"0">>)
     => (/\ rollResult'.poolSize = 0
         /\ rollResult'.successes = 0
         /\ rollResult'.resultCategory = "disaster"
         /\ d6Drawn' = <<>>)]_vars

\* C17: if the roll dialog is cancelled (or closed) before Roll is pressed,
\* no dice are drawn, nothing is posted to chat, and the character's history
\* and stats are unchanged.
C17_CancelLeavesNoTrace ==
  (pc \notin {"idle", "refused", "rollDialog"} /\ rollResult = null) =>
    /\ call = null
    /\ draws = <<>>
    /\ chat = <<>>
    /\ downtimeData = getDefaultCharacterDowntimeData

\* The dialog was cancelled and _executeWithRoll has returned
C17_Witness ==
  /\ pc = "done"
  /\ rollResult = null
  /\ activeMarker # null

\* C18: every roll result computed during an action execution is recorded as
\* exactly one history entry: once the roll dialog has returned a result, no
\* way the flow ends (notes prompt saved, skipped or closed) leaves the
\* result unrecorded.
C18_ResultRecorded ==
  (flowEnded /\ rollResult # null) =>
    /\ Len(history) = 1
    /\ history[1].result.rollResult = rollResult.resultCategory

\* C19: the history entry of a rolled action contains a timestamp, the id of
\* the marker active when it was recorded (or none), the action id and name,
\* the success flag, the outcome tier, the notes, and the full roll result.
C19_EntryFields ==
  \A i \in 1..Len(history) :
    /\ {"timestamp", "markerId", "actionId", "actionName"}
         \subseteq DOMAIN history[i]
    /\ {"success", "rollResult", "description", "rollData"}
         \subseteq DOMAIN history[i].result
    /\ history[i].markerId =
         (IF activeMarker = null THEN null ELSE activeMarker.id)
    /\ history[i].actionId = action.id
    /\ history[i].actionName = action.name
    /\ history[i].result.description = notes
    /\ history[i].result.rollData = rollResult

\* C20: the success flag of a recorded history entry is true exactly when
\* the confirmed outcome tier of the roll is triumph or success, whatever
\* the potential tier is.
C20_SuccessFromConfirmedTier ==
  \A i \in 1..Len(history) :
    /\ history[i].result.rollResult = ConfirmedSection(rollResult).resultCategory
    /\ history[i].result.success =
         (ConfirmedSection(rollResult).resultCategory \in {"triumph", "success"})

\* A roll recorded as no success whose potential tier is a success
C20_Witness ==
  /\ pc = "done"
  /\ Len(history) = 1
  /\ hasPotential
  /\ rollResult.resultCategory = "conflict"
  /\ rollResult.potential.resultCategory \in {"triumph", "success"}
  /\ ~history[1].result.success

\* The totals a pilot check can have: a d20 plus or minus a d6
PilotTotals == (1 - 6)..(20 + 6)

\* C22: classification of a pilot-check total is monotonic: for totals
\* t1 <= t2 the tier of t1 is not higher than the tier of t2 in the order
\* disaster < conflict < success < triumph, and a total always yields the
\* same tier (the tier of a result is the tier of its total).
C22_ClassifierMonotonic ==
  isPilot =>
    /\ rollResult.total \in PilotTotals
    /\ rollResult.resultCategory = getPilotResultCategory(rollResult.total)
    /\ \A t2 \in PilotTotals :
         /\ rollResult.total <= t2 =>
              TierRank(rollResult.resultCategory)
                <= TierRank(getPilotResultCategory(t2))
         /\ t2 <= rollResult.total =>
              TierRank(getPilotResultCategory(t2))
                <= TierRank(rollResult.resultCategory)

\* A pilot check whose total is exactly 20
C22_Witness == isPilot /\ rollResult.total = 20 /\ rollResult.modifierValue # 0

\* C23: for every pilot check with conditionals of positive value, every
\* accuracy and difficulty (net-negative ones too) and every drawn dice, the
\* potential total is >= the confirmed total, so the potential tier is never
\* lower than the confirmed tier.
C23_PilotPotentialNotLower ==
  (isPilot /\ hasPotential) =>
    /\ rollResult.potential.total >= rollResult.total
    /\ TierRank(rollResult.potential.resultCategory)
         >= TierRank(rollResult.resultCategory)

\* A net-negative pilot check whose potential total is higher
C23_Witness ==
  /\ isPilot /\ hasPotential
  /\ rollResult.netAccuracy < 0
  /\ rollResult.potential.total > rollResult.total

\* C24: in every pilot-check result with a potential section the number of
\* dice in potential.modifierDice equals |potential.netAccuracy|, the dice
\* count named in potential.formula.
C24_PotentialDiceMatchFormula ==
  (isPilot /\ hasPotential) =>
    /\ Len(rollResult.potential.modifierDice)
         = Abs(rollResult.potential.netAccuracy)
    /\ rollResult.potential.formula
         = pilotFormula(rollResult.potential.netAccuracy)

\* The draw source answered the draw with an error
hasFailed(draw) == "error" \in DOMAIN draw

\* C21: if the draw source fails (the d20 draw or the d6 batch draw raises),
\* the executor propagates that error to its caller, draws nothing after the
\* failed draw (no retry, no second draw) and returns no result.
C21_DrawErrorPropagates ==
  /\ \A i \in 1..Len(draws) :
       hasFailed(draws[i]) =>
         /\ i = Len(draws)
         /\ thrown = draws[i].error
         /\ rollResult = null
  /\ thrown # null => (draws # <<>> /\ hasFailed(draws[Len(draws)]))
  /\ Len(drawsOf(20)) <= 1 /\ Len(drawsOf(6)) <= 1

\* The d20 was drawn and the d6 batch draw raised
C21_Witness ==
  /\ Len(draws) = 2
  /\ ~hasFailed(draws[1])
  /\ hasFailed(draws[2])
  /\ thrown \in DrawErrors

\* C25: for every state of the roll dialog the preview agrees with the roll
\* executed from that state: the 'Confirmed' formula equals the result's
\* formula, the 'If approved' line is shown exactly when the result has a
\* potential section, and then its formula equals potential.formula.
C25_PreviewAgreesWithRoll ==
  [][RollPressed =>
       LET preview == updateRollPreview(dialog) IN
       /\ preview.confirmed = rollResult'.formula
       /\ preview.conditionalShown = (rollResult'.potential # null)
       /\ IF preview.conditionalShown /\ rollResult'.potential # null
            THEN preview.conditional = rollResult'.potential.formula
            ELSE TRUE]_vars

activeIdConsistent(ms, activeId) ==
  /\ activeId = noId <=> ms = <<>>
  /\ activeId # noId => getActiveMarker(ms, activeId) # null

\* C28: after any sequence of addMarker, deleteMarker and setActiveMarker
\* (of an existing id) the stored active marker id is null exactly when the
\* marker list is empty and otherwise the id of a marker in the list;
\* addMarker makes the new marker active, and deleting the active marker
\* makes the last marker of the remaining list active.
C28_ActiveMarkerConsistent ==
  /\ activeIdConsistent(markers, activeMarkerId)
  /\ [][/\ activeIdConsistent(markers', activeMarkerId')
        /\ Len(markers') > Len(markers)
             => activeMarkerId' = markers'[Len(markers')].id
        /\ (/\ Len(markers') < Len(markers)
            /\ activeMarkerId \notin markerIds(markers')
            /\ markers' # <<>>)
             => activeMarkerId' = markers'[Len(markers')].id]_vars

\* Two markers remain and the active one is not the last added: a marker was
\* selected or the active one was deleted
C28_Witness ==
  /\ Len(markers) = 2
  /\ activeMarkerId = markers[1].id
  /\ ~markers[1].downtimeAllowed

\* C27: no history entry is recorded at a moment when the active marker has
\* downtimeAllowed = false, whatever marker changes the referee makes between
\* the click and the record.
C27_NoRecordWhileRefused ==
  [][downtimeData'.history # downtimeData.history
       => ~downtimeRefused(activeMarker')]_vars

\* C26: under any interleaving of recordings for one character, once every
\* write has completed each recording is exactly one entry of the history
\* and stats.totalActions is the number of recordings.
C26_NoRecordingLost ==
  (\A r \in DOMAIN recorders : recorders[r].written)
    => /\ Len(downtimeData.history) = Len(recorders)
       /\ downtimeData.stats.totalActions = Len(recorders)

\* C29: applyTakeABreakEffects terminates for every character state, also
\* when the store returns a fresh copy of the aspects on each read, and then
\* every aspect has burned = 0 and the character has no burdens.
C29_TakeABreakTerminates ==
  <>(/\ effects.pc = "done"
     /\ \A i \in DOMAIN character.characterData.aspects :
          character.characterData.aspects[i].burned = 0
     /\ character.characterData.burdens = <<>>)

====
